---- MODULE Spec2Model ----
(***************************************************************************)
(* A model of app.py: the chunker (split_text), the summarizer             *)
(* (summarize_long_text), the outline parser (parse_points), the outline   *)
(* generator (extract_slide_count, generate_outline), the outline reviser  *)
(* (edit_outline_with_feedback and the Apply Feedback handler) and         *)
(* clean_title_text.                                                       *)
(*                                                                         *)
(* A Python str is a sequence of characters; a character is a one-letter   *)
(* TLA+ string.  The bullet glyph U+2022 is written "BULLET", the warning  *)
(* sign U+26A0 that starts call_gemini's error text is written "WARN" and  *)
(* the backtick "BACKTICK", each standing for one character.  Any other    *)
(* character that is not printable ASCII, tab, line feed or carriage       *)
(* return is written by its code point in four or more upper-case hex      *)
(* digits, "U+000C" for the form feed, again standing for one character.   *)
(***************************************************************************)
EXTENDS Integers, Sequences, FiniteSets, TLC

VARIABLES
    \* split_text
    text, chunk_size, overlap, start, chunks, split_pc,
    \* parse_points
    points_text, lines, line_idx, points, current_title, current_content,
    parse_pc,
    \* clean_title_text
    title, cleaned, title_pc,
    \* generate_outline
    description, stated_count, num_slides, prompt, slides, gen_pc,
    \* summarize_long_text
    full_text, sum_chunks, idx, partial_analyses, calls, replies, summary,
    sum_pc,
    \* the session and the Apply Feedback handler
    outline_chat, outline, new_title, feedback_box, updated_outline,
    fb_prompt, fb_reply, fb_message, fb_pc

splitVars == <<text, chunk_size, overlap, start, chunks, split_pc>>
parseVars == <<points_text, lines, line_idx, points, current_title,
               current_content, parse_pc>>
titleVars == <<title, cleaned, title_pc>>
genVars == <<description, stated_count, num_slides, prompt, slides, gen_pc>>
sumVars == <<full_text, sum_chunks, idx, partial_analyses, calls, replies,
             summary, sum_pc>>
sessVars == <<outline_chat, outline, new_title, feedback_box, updated_outline,
              fb_prompt, fb_reply, fb_message, fb_pc>>
vars == <<splitVars, parseVars, titleVars, genVars, sumVars, sessVars>>

\* what the steps of one function leave alone
notSplit == <<parseVars, titleVars, genVars, sumVars, sessVars>>
notParse == <<splitVars, titleVars, genVars, sumVars, sessVars>>
notTitle == <<splitVars, parseVars, genVars, sumVars, sessVars>>
notGen == <<splitVars, parseVars, titleVars, sumVars, sessVars>>
notSum == <<splitVars, parseVars, titleVars, genVars, sessVars>>
notSess == <<splitVars, parseVars, titleVars, genVars, sumVars>>

----------------------------------------------------------------------------
(* Bounds of the model *)

MaxTextLen == 4
MaxChunkSize == 3
MaxOverlap == 3
MaxNegOverlap == 1
MaxIter == 5
MaxLines == 3
MaxTitleLen == 4
MaxCount == 12
MaxChunks == 3

----------------------------------------------------------------------------
(* Python str and list primitives *)

Min(a, b) == IF a <= b THEN a ELSE b
Max(a, b) == IF a >= b THEN a ELSE b

\* s[lo:hi] for 0 <= lo and 0 <= hi (indices beyond len(s) are clipped)
Slice(s, lo, hi) == SubSeq(s, lo + 1, Min(hi, Len(s)))

\* all sequences over S of length at most n
SeqsUpTo(S, n) == UNION {[1..k -> S] : k \in 0..n}

RECURSIVE Concat(_)
Concat(ss) == IF ss = <<>> THEN <<>> ELSE Head(ss) \o Concat(Tail(ss))


\* "sep".join(ss)
RECURSIVE Join(_, _)
Join(ss, sep) ==
    IF ss = <<>> THEN <<>>
    ELSE IF Len(ss) = 1 THEN ss[1]
    ELSE ss[1] \o sep \o Join(Tail(ss), sep)

\* the characters str.strip() removes and a str pattern's \s matches:
\* those str.isspace() holds of
Whitespace ==
    {"\t", "\n", "U+000B", "U+000C", "\r", "U+001C", "U+001D", "U+001E",
     "U+001F", " ", "U+0085", "U+00A0", "U+1680", "U+2000", "U+2001",
     "U+2002", "U+2003", "U+2004", "U+2005", "U+2006", "U+2007", "U+2008",
     "U+2009", "U+200A", "U+2028", "U+2029", "U+202F", "U+205F", "U+3000"}

\* the decimal digits of Unicode 14.0 (category Nd), each script's ten in
\* the order of their values
DigitRuns ==
    {<<"0", "1", "2", "3", "4", "5", "6", "7", "8", "9">>,
     <<"U+0660", "U+0661", "U+0662", "U+0663", "U+0664", "U+0665", "U+0666", "U+0667", "U+0668", "U+0669">>,
     <<"U+06F0", "U+06F1", "U+06F2", "U+06F3", "U+06F4", "U+06F5", "U+06F6", "U+06F7", "U+06F8", "U+06F9">>,
     <<"U+07C0", "U+07C1", "U+07C2", "U+07C3", "U+07C4", "U+07C5", "U+07C6", "U+07C7", "U+07C8", "U+07C9">>,
     <<"U+0966", "U+0967", "U+0968", "U+0969", "U+096A", "U+096B", "U+096C", "U+096D", "U+096E", "U+096F">>,
     <<"U+09E6", "U+09E7", "U+09E8", "U+09E9", "U+09EA", "U+09EB", "U+09EC", "U+09ED", "U+09EE", "U+09EF">>,
     <<"U+0A66", "U+0A67", "U+0A68", "U+0A69", "U+0A6A", "U+0A6B", "U+0A6C", "U+0A6D", "U+0A6E", "U+0A6F">>,
     <<"U+0AE6", "U+0AE7", "U+0AE8", "U+0AE9", "U+0AEA", "U+0AEB", "U+0AEC", "U+0AED", "U+0AEE", "U+0AEF">>,
     <<"U+0B66", "U+0B67", "U+0B68", "U+0B69", "U+0B6A", "U+0B6B", "U+0B6C", "U+0B6D", "U+0B6E", "U+0B6F">>,
     <<"U+0BE6", "U+0BE7", "U+0BE8", "U+0BE9", "U+0BEA", "U+0BEB", "U+0BEC", "U+0BED", "U+0BEE", "U+0BEF">>,
     <<"U+0C66", "U+0C67", "U+0C68", "U+0C69", "U+0C6A", "U+0C6B", "U+0C6C", "U+0C6D", "U+0C6E", "U+0C6F">>,
     <<"U+0CE6", "U+0CE7", "U+0CE8", "U+0CE9", "U+0CEA", "U+0CEB", "U+0CEC", "U+0CED", "U+0CEE", "U+0CEF">>,
     <<"U+0D66", "U+0D67", "U+0D68", "U+0D69", "U+0D6A", "U+0D6B", "U+0D6C", "U+0D6D", "U+0D6E", "U+0D6F">>,
     <<"U+0DE6", "U+0DE7", "U+0DE8", "U+0DE9", "U+0DEA", "U+0DEB", "U+0DEC", "U+0DED", "U+0DEE", "U+0DEF">>,
     <<"U+0E50", "U+0E51", "U+0E52", "U+0E53", "U+0E54", "U+0E55", "U+0E56", "U+0E57", "U+0E58", "U+0E59">>,
     <<"U+0ED0", "U+0ED1", "U+0ED2", "U+0ED3", "U+0ED4", "U+0ED5", "U+0ED6", "U+0ED7", "U+0ED8", "U+0ED9">>,
     <<"U+0F20", "U+0F21", "U+0F22", "U+0F23", "U+0F24", "U+0F25", "U+0F26", "U+0F27", "U+0F28", "U+0F29">>,
     <<"U+1040", "U+1041", "U+1042", "U+1043", "U+1044", "U+1045", "U+1046", "U+1047", "U+1048", "U+1049">>,
     <<"U+1090", "U+1091", "U+1092", "U+1093", "U+1094", "U+1095", "U+1096", "U+1097", "U+1098", "U+1099">>,
     <<"U+17E0", "U+17E1", "U+17E2", "U+17E3", "U+17E4", "U+17E5", "U+17E6", "U+17E7", "U+17E8", "U+17E9">>,
     <<"U+1810", "U+1811", "U+1812", "U+1813", "U+1814", "U+1815", "U+1816", "U+1817", "U+1818", "U+1819">>,
     <<"U+1946", "U+1947", "U+1948", "U+1949", "U+194A", "U+194B", "U+194C", "U+194D", "U+194E", "U+194F">>,
     <<"U+19D0", "U+19D1", "U+19D2", "U+19D3", "U+19D4", "U+19D5", "U+19D6", "U+19D7", "U+19D8", "U+19D9">>,
     <<"U+1A80", "U+1A81", "U+1A82", "U+1A83", "U+1A84", "U+1A85", "U+1A86", "U+1A87", "U+1A88", "U+1A89">>,
     <<"U+1A90", "U+1A91", "U+1A92", "U+1A93", "U+1A94", "U+1A95", "U+1A96", "U+1A97", "U+1A98", "U+1A99">>,
     <<"U+1B50", "U+1B51", "U+1B52", "U+1B53", "U+1B54", "U+1B55", "U+1B56", "U+1B57", "U+1B58", "U+1B59">>,
     <<"U+1BB0", "U+1BB1", "U+1BB2", "U+1BB3", "U+1BB4", "U+1BB5", "U+1BB6", "U+1BB7", "U+1BB8", "U+1BB9">>,
     <<"U+1C40", "U+1C41", "U+1C42", "U+1C43", "U+1C44", "U+1C45", "U+1C46", "U+1C47", "U+1C48", "U+1C49">>,
     <<"U+1C50", "U+1C51", "U+1C52", "U+1C53", "U+1C54", "U+1C55", "U+1C56", "U+1C57", "U+1C58", "U+1C59">>,
     <<"U+A620", "U+A621", "U+A622", "U+A623", "U+A624", "U+A625", "U+A626", "U+A627", "U+A628", "U+A629">>,
     <<"U+A8D0", "U+A8D1", "U+A8D2", "U+A8D3", "U+A8D4", "U+A8D5", "U+A8D6", "U+A8D7", "U+A8D8", "U+A8D9">>,
     <<"U+A900", "U+A901", "U+A902", "U+A903", "U+A904", "U+A905", "U+A906", "U+A907", "U+A908", "U+A909">>,
     <<"U+A9D0", "U+A9D1", "U+A9D2", "U+A9D3", "U+A9D4", "U+A9D5", "U+A9D6", "U+A9D7", "U+A9D8", "U+A9D9">>,
     <<"U+A9F0", "U+A9F1", "U+A9F2", "U+A9F3", "U+A9F4", "U+A9F5", "U+A9F6", "U+A9F7", "U+A9F8", "U+A9F9">>,
     <<"U+AA50", "U+AA51", "U+AA52", "U+AA53", "U+AA54", "U+AA55", "U+AA56", "U+AA57", "U+AA58", "U+AA59">>,
     <<"U+ABF0", "U+ABF1", "U+ABF2", "U+ABF3", "U+ABF4", "U+ABF5", "U+ABF6", "U+ABF7", "U+ABF8", "U+ABF9">>,
     <<"U+FF10", "U+FF11", "U+FF12", "U+FF13", "U+FF14", "U+FF15", "U+FF16", "U+FF17", "U+FF18", "U+FF19">>,
     <<"U+104A0", "U+104A1", "U+104A2", "U+104A3", "U+104A4", "U+104A5", "U+104A6", "U+104A7", "U+104A8", "U+104A9">>,
     <<"U+10D30", "U+10D31", "U+10D32", "U+10D33", "U+10D34", "U+10D35", "U+10D36", "U+10D37", "U+10D38", "U+10D39">>,
     <<"U+11066", "U+11067", "U+11068", "U+11069", "U+1106A", "U+1106B", "U+1106C", "U+1106D", "U+1106E", "U+1106F">>,
     <<"U+110F0", "U+110F1", "U+110F2", "U+110F3", "U+110F4", "U+110F5", "U+110F6", "U+110F7", "U+110F8", "U+110F9">>,
     <<"U+11136", "U+11137", "U+11138", "U+11139", "U+1113A", "U+1113B", "U+1113C", "U+1113D", "U+1113E", "U+1113F">>,
     <<"U+111D0", "U+111D1", "U+111D2", "U+111D3", "U+111D4", "U+111D5", "U+111D6", "U+111D7", "U+111D8", "U+111D9">>,
     <<"U+112F0", "U+112F1", "U+112F2", "U+112F3", "U+112F4", "U+112F5", "U+112F6", "U+112F7", "U+112F8", "U+112F9">>,
     <<"U+11450", "U+11451", "U+11452", "U+11453", "U+11454", "U+11455", "U+11456", "U+11457", "U+11458", "U+11459">>,
     <<"U+114D0", "U+114D1", "U+114D2", "U+114D3", "U+114D4", "U+114D5", "U+114D6", "U+114D7", "U+114D8", "U+114D9">>,
     <<"U+11650", "U+11651", "U+11652", "U+11653", "U+11654", "U+11655", "U+11656", "U+11657", "U+11658", "U+11659">>,
     <<"U+116C0", "U+116C1", "U+116C2", "U+116C3", "U+116C4", "U+116C5", "U+116C6", "U+116C7", "U+116C8", "U+116C9">>,
     <<"U+11730", "U+11731", "U+11732", "U+11733", "U+11734", "U+11735", "U+11736", "U+11737", "U+11738", "U+11739">>,
     <<"U+118E0", "U+118E1", "U+118E2", "U+118E3", "U+118E4", "U+118E5", "U+118E6", "U+118E7", "U+118E8", "U+118E9">>,
     <<"U+11950", "U+11951", "U+11952", "U+11953", "U+11954", "U+11955", "U+11956", "U+11957", "U+11958", "U+11959">>,
     <<"U+11C50", "U+11C51", "U+11C52", "U+11C53", "U+11C54", "U+11C55", "U+11C56", "U+11C57", "U+11C58", "U+11C59">>,
     <<"U+11D50", "U+11D51", "U+11D52", "U+11D53", "U+11D54", "U+11D55", "U+11D56", "U+11D57", "U+11D58", "U+11D59">>,
     <<"U+11DA0", "U+11DA1", "U+11DA2", "U+11DA3", "U+11DA4", "U+11DA5", "U+11DA6", "U+11DA7", "U+11DA8", "U+11DA9">>,
     <<"U+16A60", "U+16A61", "U+16A62", "U+16A63", "U+16A64", "U+16A65", "U+16A66", "U+16A67", "U+16A68", "U+16A69">>,
     <<"U+16AC0", "U+16AC1", "U+16AC2", "U+16AC3", "U+16AC4", "U+16AC5", "U+16AC6", "U+16AC7", "U+16AC8", "U+16AC9">>,
     <<"U+16B50", "U+16B51", "U+16B52", "U+16B53", "U+16B54", "U+16B55", "U+16B56", "U+16B57", "U+16B58", "U+16B59">>,
     <<"U+1D7CE", "U+1D7CF", "U+1D7D0", "U+1D7D1", "U+1D7D2", "U+1D7D3", "U+1D7D4", "U+1D7D5", "U+1D7D6", "U+1D7D7">>,
     <<"U+1D7D8", "U+1D7D9", "U+1D7DA", "U+1D7DB", "U+1D7DC", "U+1D7DD", "U+1D7DE", "U+1D7DF", "U+1D7E0", "U+1D7E1">>,
     <<"U+1D7E2", "U+1D7E3", "U+1D7E4", "U+1D7E5", "U+1D7E6", "U+1D7E7", "U+1D7E8", "U+1D7E9", "U+1D7EA", "U+1D7EB">>,
     <<"U+1D7EC", "U+1D7ED", "U+1D7EE", "U+1D7EF", "U+1D7F0", "U+1D7F1", "U+1D7F2", "U+1D7F3", "U+1D7F4", "U+1D7F5">>,
     <<"U+1D7F6", "U+1D7F7", "U+1D7F8", "U+1D7F9", "U+1D7FA", "U+1D7FB", "U+1D7FC", "U+1D7FD", "U+1D7FE", "U+1D7FF">>,
     <<"U+1E140", "U+1E141", "U+1E142", "U+1E143", "U+1E144", "U+1E145", "U+1E146", "U+1E147", "U+1E148", "U+1E149">>,
     <<"U+1E2F0", "U+1E2F1", "U+1E2F2", "U+1E2F3", "U+1E2F4", "U+1E2F5", "U+1E2F6", "U+1E2F7", "U+1E2F8", "U+1E2F9">>,
     <<"U+1E950", "U+1E951", "U+1E952", "U+1E953", "U+1E954", "U+1E955", "U+1E956", "U+1E957", "U+1E958", "U+1E959">>,
     <<"U+1FBF0", "U+1FBF1", "U+1FBF2", "U+1FBF3", "U+1FBF4", "U+1FBF5", "U+1FBF6", "U+1FBF7", "U+1FBF8", "U+1FBF9">>}

\* the characters a str pattern's \d matches and int() reads
Digits == {r[k] : r \in DigitRuns, k \in 1..10}

Bullet == "BULLET"
Backtick == "BACKTICK"

\* s.lstrip(chars): s from its first character that is not in cs
LStripChars(s, cs) ==
    IF \A i \in 1..Len(s) : s[i] \in cs THEN <<>>
    ELSE LET first == CHOOSE i \in 1..Len(s) :
                         s[i] \notin cs /\ \A j \in 1..(i - 1) : s[j] \in cs
         IN  SubSeq(s, first, Len(s))

\* s.rstrip(chars): s up to its last character that is not in cs
RStripChars(s, cs) ==
    IF \A i \in 1..Len(s) : s[i] \in cs THEN <<>>
    ELSE LET last == CHOOSE i \in 1..Len(s) :
                        s[i] \notin cs /\ \A j \in (i + 1)..Len(s) : s[j] \in cs
         IN  SubSeq(s, 1, last)

\* s.rstrip() and s.strip()
RStrip(s) == RStripChars(s, Whitespace)
Strip(s) == LStripChars(RStrip(s), Whitespace)

\* s.startswith(p)
StartsWith(s, p) == Len(s) >= Len(p) /\ SubSeq(s, 1, Len(p)) = p

\* p in s
Contains(s, p) ==
    \E i \in 1..(Len(s) - Len(p) + 1) : SubSeq(s, i, i + Len(p) - 1) = p

\* re.sub("[...]", "", s): s without the characters of cs
RECURSIVE RemoveChars(_, _)
RemoveChars(s, cs) ==
    IF s = <<>> THEN <<>>
    ELSE IF Head(s) \in cs THEN RemoveChars(Tail(s), cs)
    ELSE <<Head(s)>> \o RemoveChars(Tail(s), cs)

\* the line boundaries str.splitlines() splits on
LineBreaks ==
    {"\n", "U+000B", "U+000C", "\r", "U+001C", "U+001D", "U+001E", "U+0085",
     "U+2028", "U+2029"}

\* s.splitlines(): "\r\n" is one boundary; no empty last line after a
\* final boundary
RECURSIVE SplitLinesFrom(_, _)
SplitLinesFrom(s, cur) ==
    IF s = <<>> THEN (IF cur = <<>> THEN <<>> ELSE <<cur>>)
    ELSE IF Head(s) \in LineBreaks
    THEN LET rest == IF Head(s) = "\r" /\ Len(s) >= 2 /\ s[2] = "\n"
                     THEN Tail(Tail(s)) ELSE Tail(s)
         IN  <<cur>> \o SplitLinesFrom(rest, <<>>)
    ELSE SplitLinesFrom(Tail(s), Append(cur, Head(s)))

SplitLines(s) == SplitLinesFrom(s, <<>>)

\* what re.IGNORECASE folds onto an ASCII lower-case letter of a pattern:
\* its upper-case form and, for i, k and s, the dotted capital I, the
\* dotless i, the Kelvin sign and the long s
LowerOf ==
    [A |-> "a", B |-> "b", C |-> "c", D |-> "d", E |-> "e", F |-> "f",
     G |-> "g", H |-> "h", I |-> "i", J |-> "j", K |-> "k", L |-> "l",
     M |-> "m", N |-> "n", O |-> "o", P |-> "p", Q |-> "q", R |-> "r",
     S |-> "s", T |-> "t", U |-> "u", V |-> "v", W |-> "w", X |-> "x",
     Y |-> "y", Z |-> "z"]
    @@ ("U+0130" :> "i") @@ ("U+0131" :> "i") @@ ("U+212A" :> "k")
    @@ ("U+017F" :> "s")

Lower(c) == IF c \in DOMAIN LowerOf THEN LowerOf[c] ELSE c

\* the lower-case word w is at index i of s, whatever the case
WordAt(s, i, w) ==
    /\ i + Len(w) - 1 <= Len(s)
    /\ \A k \in 1..Len(w) : Lower(s[i + k - 1]) = w[k]

\* the first index from i on whose character is not in cs (Len(s) + 1 if
\* none, i itself beyond the end of s)
SkipChars(s, i, cs) ==
    IF i > Len(s) THEN i
    ELSE IF \A j \in i..Len(s) : s[j] \in cs THEN Len(s) + 1
    ELSE CHOOSE j \in i..Len(s) :
             s[j] \notin cs /\ \A k \in i..(j - 1) : s[k] \in cs

\* the most digits int() converts (sys.int_info.default_max_str_digits);
\* leading zeros count
IntMaxStrDigits == 4300

\* int(digits) raises ValueError
IntRaises(ds) == Len(ds) > IntMaxStrDigits

\* the number int(digits) returns when it does not raise
DigitValue(c) == CHOOSE v \in 0..9 : \E r \in DigitRuns : r[v + 1] = c

RECURSIVE ParseInt(_)
ParseInt(ds) ==
    IF ds = <<>> THEN 0
    ELSE 10 * ParseInt(SubSeq(ds, 1, Len(ds) - 1)) + DigitValue(ds[Len(ds)])

----------------------------------------------------------------------------
(* split_text *)

\* end = min(start + chunk_size, n)
SplitEnd(t, cs, st) == Min(st + cs, Len(t))

\* mutant: the next window starts where the last one ended
SplitNextStartNoOverlap(end, ov) == end

\* start = max(0, end - overlap)
SplitNextStart(end, ov) == Max(0, end - ov)

\* the while loop of split_text, from index st
RECURSIVE SplitLoop(_, _, _, _)
SplitLoop(t, cs, ov, st) ==
    IF st < Len(t)
    THEN LET end == SplitEnd(t, cs, st)
             chunk == Slice(t, st, end)
         IN  IF end = Len(t) THEN <<chunk>>
             ELSE <<chunk>> \o SplitLoop(t, cs, ov, SplitNextStart(end, ov))
    ELSE <<>>

split_text(t, cs, ov) == IF t = <<>> THEN <<>> ELSE SplitLoop(t, cs, ov, 0)

SplitTexts == SeqsUpTo({"a", "b"}, MaxTextLen)

SplitIdle ==
    /\ text = <<>> /\ chunk_size = 0 /\ overlap = 0
    /\ start = 0 /\ chunks = <<>> /\ split_pc = "idle"

\* a call split_text(text, chunk_size, overlap), before its first statement
SplitInit ==
    /\ text \in SplitTexts
    /\ chunk_size \in 1..MaxChunkSize
    /\ overlap \in (0 - MaxNegOverlap)..MaxOverlap
    /\ start = 0 /\ chunks = <<>> /\ split_pc = "entry"

\* "if not text: return []" and "chunks, start, n = [], 0, len(text)"
SplitEnter ==
    /\ split_pc = "entry"
    /\ split_pc' = IF text = <<>> THEN "done" ELSE "loop"
    /\ UNCHANGED <<text, chunk_size, overlap, start, chunks>>
    /\ UNCHANGED notSplit

\* "while start < n" is false: fall out of the loop
SplitExit ==
    /\ split_pc = "loop"
    /\ ~(start < Len(text))
    /\ split_pc' = "done"
    /\ UNCHANGED <<text, chunk_size, overlap, start, chunks>>
    /\ UNCHANGED notSplit

\* one iteration of the while loop
SplitIterate ==
    /\ split_pc = "loop"
    /\ start < Len(text)
    /\ Len(chunks) < MaxIter
    /\ LET end == SplitEnd(text, chunk_size, start)
       IN  /\ chunks' = Append(chunks, Slice(text, start, end))
           /\ IF end = Len(text)
              THEN split_pc' = "done" /\ start' = start
              ELSE split_pc' = "loop" /\ start' = SplitNextStart(end, overlap)
    /\ UNCHANGED <<text, chunk_size, overlap>>
    /\ UNCHANGED notSplit

----------------------------------------------------------------------------
(* parse_points *)

\* None, as a value no str equals
None == <<"None">>

\* Python truthiness of a value that is None or a str
Truthy(v) == v # None /\ v # <<>>

WouldYouLike == <<"W", "o", "u", "l", "d", " ", "y", "o", "u", " ", "l", "i", "k", "e">>

\* re.sub(r"[#*>`]", "", ln).rstrip()
CleanLine(ln) == RStrip(RemoveChars(ln, {"#", "*", ">", Backtick}))

\* lines = [... for ln in points_text.splitlines()]
CleanLines(pt) == LET raw == SplitLines(pt) IN [i \in 1..Len(raw) |-> CleanLine(raw[i])]

\* re.match(r"^\s*(Slide|Section)\s*(\d+)\s*:\s*(.+)$", line, re.IGNORECASE)
\* on a line holding no line break: whether it matches, with group(2) and
\* group(3).  The classes \s, \d and ":" are disjoint, so each greedy \s*
\* and \d+ takes its whole run; the last \s* gives one character back to
\* (.+) when only whitespace follows the colon.
SlideMatch(line) ==
    LET i0 == SkipChars(line, 1, Whitespace)
        i1 == IF WordAt(line, i0, <<"s", "l", "i", "d", "e">>) THEN i0 + 5
              ELSE IF WordAt(line, i0, <<"s", "e", "c", "t", "i", "o", "n">>) THEN i0 + 7
              ELSE 0
        i2 == SkipChars(line, i1, Whitespace)
        i3 == SkipChars(line, i2, Digits)
        i4 == SkipChars(line, i3, Whitespace)
        i5 == SkipChars(line, i4 + 1, Whitespace)
        ok == /\ i1 > 0 /\ i3 > i2
              /\ i4 <= Len(line) /\ line[i4] = ":"
              /\ i4 < Len(line)
    IN  IF ok
        THEN [matched |-> TRUE,
              num |-> SubSeq(line, i2, i3 - 1),
              rest |-> IF i5 <= Len(line) THEN SubSeq(line, i5, Len(line))
                       ELSE <<line[Len(line)]>>]
        ELSE [matched |-> FALSE, num |-> <<>>, rest |-> <<>>]

\* {"title": current_title, "description": "\n".join(current_content)}
SlideRecord(ttl, content) ==
    [title |-> ttl, description |-> Join(content, <<"\n">>)]

\* mutant: a slide without content lines is not flushed
FlushIfContent(st) ==
    IF Truthy(st.current_title) /\ st.current_content # <<>>
    THEN Append(st.points, SlideRecord(st.current_title, st.current_content))
    ELSE st.points

\* "if current_title: points.append({...})"
Flush(st) ==
    IF Truthy(st.current_title)
    THEN Append(st.points, SlideRecord(st.current_title, st.current_content))
    ELSE st.points

\* the body of "for line in lines", on the loop's state
\* st = [points, current_title, current_content]
ParseLine(st, line) ==
    IF line = <<>> \/ Contains(line, WouldYouLike) THEN st
    ELSE LET m == SlideMatch(line) IN
    IF m.matched
    THEN [points |-> Flush(st),
          current_title |-> Strip(m.rest),
          current_content |-> <<>>]
    ELSE IF StartsWith(Strip(line), <<"-">>)
    THEN LET t == Strip(LStripChars(line, {"-"}))
         IN  IF t # <<>>
             THEN [st EXCEPT !.current_content = Append(@, <<Bullet, " ">> \o t)]
             ELSE st
    ELSE IF \/ StartsWith(Strip(line), <<Bullet>>)
            \/ StartsWith(Strip(line), <<"*">>)
            \/ StartsWith(line, <<" ", " ">>)
    THEN LET t == Strip(LStripChars(line, {Bullet, "*"}))
         IN  IF t # <<>>
             THEN [st EXCEPT !.current_content = Append(@, <<"-", " ">> \o t)]
             ELSE st
    ELSE IF Strip(line) # <<>>
    THEN [st EXCEPT !.current_content = Append(@, Strip(line))]
    ELSE st

ParseStart == [points |-> <<>>, current_title |-> None, current_content |-> <<>>]

RECURSIVE ParseLoop(_, _)
ParseLoop(st, ls) ==
    IF ls = <<>> THEN st ELSE ParseLoop(ParseLine(st, Head(ls)), Tail(ls))

parse_points(pt) == Flush(ParseLoop(ParseStart, CleanLines(pt)))

\* the lines an LLM response is made of in the model
ResponseLines ==
    {
     <<"S", "l", "i", "d", "e", " ", "1", ":", " ", "A">>,   \* a slide boundary
     <<" ", "S", "E", "C", "T", "I", "O", "N", "2", " ", ":", "B", " ">>,   \* a boundary: other keyword, case, spacing, trailing blank
     <<"*", "S", "l", "i", "d", "e", " ", "5", ":", " ", "A", "*">>,   \* a boundary once the markers are stripped
     <<"S", "l", "i", "d", "e", " ", "3", ":">>,   \* no boundary: nothing after the colon
     <<"S", "l", "i", "d", "e", " ", "1", ":", " ", "W", "o", "u", "l", "d", " ", "y", "o", "u", " ", "l", "i", "k", "e">>,   \* a boundary line that is skipped
     <<"-", " ", "x">>,   \* a dash bullet
     <<"*", " ", "y">>,   \* an asterisk bullet
     <<Bullet, " ", "z">>,   \* a bullet-glyph bullet
     <<" ", " ", "w">>,   \* an indented line
     <<" ", "-", " ", "q">>,   \* an indented dash bullet
     <<"p">>,   \* a plain line
     <<>>,   \* an empty line
     <<"#", " ">>,   \* only markers and blanks
     <<"U+017F", "l", "U+0131", "d", "e", "U+2003", "U+0663", ":", "U+00A0", "C", "U+2028", "U+3000", Bullet, "U+001F", "v">>   \* two lines: a boundary in long s, dotless i, em space and an Arabic-Indic digit, and a bullet behind other blanks
    }

\* responses of at most MaxLines lines, joined by line feeds
ResponseTexts ==
    {Join(ls, <<"\n">>) : ls \in SeqsUpTo(ResponseLines, MaxLines)}

ParseIdle ==
    /\ points_text = <<>> /\ lines = <<>> /\ line_idx = 0
    /\ points = <<>> /\ current_title = None /\ current_content = <<>>
    /\ parse_pc = "idle"

\* a call parse_points(points_text), before its first statement
ParseInit ==
    /\ points_text \in ResponseTexts
    /\ lines = <<>> /\ line_idx = 0
    /\ points = <<>> /\ current_title = None /\ current_content = <<>>
    /\ parse_pc = "entry"

\* lines 44-45: the initial state and the cleaned lines
ParseEnter ==
    /\ parse_pc = "entry"
    /\ lines' = CleanLines(points_text)
    /\ line_idx' = 1
    /\ points' = ParseStart.points
    /\ current_title' = ParseStart.current_title
    /\ current_content' = ParseStart.current_content
    /\ parse_pc' = "loop"
    /\ UNCHANGED points_text
    /\ UNCHANGED notParse

\* one iteration of "for line in lines"
ParseStep ==
    /\ parse_pc = "loop"
    /\ line_idx <= Len(lines)
    /\ LET st == ParseLine([points |-> points, current_title |-> current_title,
                            current_content |-> current_content], lines[line_idx])
       IN  /\ points' = st.points
           /\ current_title' = st.current_title
           /\ current_content' = st.current_content
    /\ line_idx' = line_idx + 1
    /\ UNCHANGED <<points_text, lines, parse_pc>>
    /\ UNCHANGED notParse

\* lines 62-64: the last flush and the return
ParseFinish ==
    /\ parse_pc = "loop"
    /\ line_idx > Len(lines)
    /\ points' = Flush([points |-> points, current_title |-> current_title,
                        current_content |-> current_content])
    /\ parse_pc' = "done"
    /\ UNCHANGED <<points_text, lines, line_idx, current_title, current_content>>
    /\ UNCHANGED notParse

----------------------------------------------------------------------------
(* call_gemini: the LLM service, as its callers see it *)

Warn == "WARN"

\* f"<warning sign> Gemini API error: {e}", for one exception text e; the
\* sign is followed by the variation selector U+FE0F
GeminiError == <<Warn, "U+FE0F", " ", "G", "e", "m", "i", "n", "i", " ", "A", "P", "I", " ", "e", "r", "r", "o", "r", ":", " ", "e">>

\* what the service answers when the round trip succeeds (already stripped)
LLMAnswers ==
    {<<>>,
     <<"S", "l", "i", "d", "e", " ", "1", ":", " ", "A", "\n", "-", " ", "x">>,
     <<"S", "l", "i", "d", "e", " ", "2", ":", " ", "B", "\n", "*", " ", "y", "\n", "S", "l", "i", "d", "e", " ", "1", ":", " ", "C">>,
     <<"o", "k">>}

\* call_gemini(prompt): an answer, or the error text when anything raised
call_gemini_results == LLMAnswers \cup {GeminiError}

----------------------------------------------------------------------------
(* clean_title_text *)

\* re.sub(r"\s+", " ", s): every run of whitespace becomes one space
RECURSIVE CollapseWhitespace(_)
CollapseWhitespace(s) ==
    IF s = <<>> THEN <<>>
    ELSE IF Head(s) \in Whitespace
    THEN <<" ">> \o CollapseWhitespace(LStripChars(s, Whitespace))
    ELSE <<Head(s)>> \o CollapseWhitespace(Tail(s))

Presentation == <<"P", "r", "e", "s", "e", "n", "t", "a", "t", "i", "o", "n">>

clean_title_text(t) ==
    IF ~Truthy(t) THEN Presentation ELSE CollapseWhitespace(Strip(t))

TitleInputs == SeqsUpTo({" ", "\t", "U+000C", "a"}, MaxTitleLen)

TitleIdle == title = <<>> /\ cleaned = <<>> /\ title_pc = "idle"

\* a call clean_title_text(title)
TitleInit == title \in TitleInputs /\ cleaned = <<>> /\ title_pc = "entry"

\* the call returns
CleanTitle ==
    /\ title_pc = "entry"
    /\ cleaned' = clean_title_text(title)
    /\ title_pc' = "done"
    /\ UNCHANGED title
    /\ UNCHANGED notTitle

----------------------------------------------------------------------------
(* extract_slide_count and generate_outline *)

\* a Python value that is None or an int
IntNone == [none |-> TRUE, int |-> 0]
IntOf(n) == [none |-> FALSE, int |-> n]
TruthyInt(v) == ~v.none /\ v.int # 0

\* the outcome of a call that raises ValueError instead of returning
ValueError == [none |-> FALSE, int |-> 0, raises |-> "ValueError"]
Raised(v) == "raises" \in DOMAIN v

\* str(n) for n >= 0
RECURSIVE Dec(_)
Dec(n) == IF n < 10 THEN <<ToString(n)>>
          ELSE Dec(n \div 10) \o <<ToString(n % 10)>>

\* (slides?|sections?|pages?) under re.IGNORECASE starts at index k
CountNounAt(s, k) ==
    \/ WordAt(s, k, <<"s", "l", "i", "d", "e">>)
    \/ WordAt(s, k, <<"s", "e", "c", "t", "i", "o", "n">>)
    \/ WordAt(s, k, <<"p", "a", "g", "e">>)

\* r"(\d+)\s*(slides?|sections?|pages?)" matches from index i
CountMatchAt(s, i) ==
    /\ s[i] \in Digits
    /\ CountNounAt(s, SkipChars(s, SkipChars(s, i, Digits), Whitespace))

\* re.search: group(1) of the leftmost match, or None.  A match from
\* inside a run of digits comes with one from the start of the run, so the
\* leftmost match starts a run.
CountSearch(s) ==
    LET I == {i \in 1..Len(s) :
                 /\ s[i] \in Digits
                 /\ (i = 1 \/ s[i - 1] \notin Digits)
                 /\ CountMatchAt(s, i)}
    IN  IF I = {} THEN None
        ELSE LET i == CHOOSE k \in I : \A l \in I : k <= l
             IN  SubSeq(s, i, SkipChars(s, i, Digits) - 1)

\* mutant: total - 1 without the floor of 1
ExtractSlideCountNoFloor(desc, default) ==
    LET g == CountSearch(desc)
    IN  IF g # None
        THEN (IF IntRaises(g) THEN ValueError ELSE IntOf(ParseInt(g) - 1))
        ELSE IF default.none THEN IntNone ELSE IntOf(default.int - 1)

extract_slide_count(desc, default) ==
    LET g == CountSearch(desc)
    IN  IF g # None
        THEN (IF IntRaises(g) THEN ValueError
              ELSE IntOf(Max(1, ParseInt(g) - 1)))
        ELSE IF default.none THEN IntNone ELSE IntOf(default.int - 1)

\* the two prompts of generate_outline, by what varies in them
OutlinePrompt(desc, n) ==
    IF TruthyInt(n)
    THEN [exactly |-> TRUE, count |-> n.int, description |-> desc]
    ELSE [exactly |-> FALSE, count |-> 0, description |-> desc]

NoPrompt == [exactly |-> FALSE, count |-> 0, description |-> <<>>]

\* descriptions: an optional lead-in, then nothing or "<N><blank?><noun>"
DescLeads == {<<>>, <<"p", "p", "t", " ", "o", "n", " ", "7", " ">>}
DescNouns ==
    {<<"s", "l", "i", "d", "e", "s">>, <<"S", "l", "i", "d", "e">>, <<"P", "A", "G", "E", "S">>, <<"s", "e", "c", "t", "i", "o", "n">>, <<"p", "a", "g", "e", " ", "t", "a", "l", "k">>, <<"U+017F", "L", "U+0130", "d", "e", "s">>}
DescOthers == {<<>>, <<"p", "p", "t">>, <<"1", "2", " ", "t", "o", "p", "i", "c", "s">>, <<"n", "o", " ", "s", "l", "i", "d", "e", "s">>}
DescBlanks == {<<>>, <<" ">>, <<" ", "\n">>, <<"U+00A0", "U+000B">>}

GenIdle ==
    /\ description = <<>> /\ stated_count = IntNone /\ num_slides = IntNone
    /\ prompt = NoPrompt /\ slides = <<>> /\ gen_pc = "idle"

\* a count written in one digit more than int() converts, and what
\* stated_count holds for it
LongCount == [i \in 1..(IntMaxStrDigits + 1) |-> "9"]
TooLongCount == [none |-> FALSE, int |-> 0, digits |-> Len(LongCount)]

\* a call generate_outline(description); stated_count records the N the
\* description was written with (None: no count)
GenInit ==
    /\ \E lead \in DescLeads :
          \/ \E n \in 0..MaxCount, b \in DescBlanks, noun \in DescNouns :
                /\ description = lead \o Dec(n) \o b \o noun
                /\ stated_count = IntOf(n)
          \/ \E b \in DescBlanks, noun \in DescNouns :
                /\ description = lead \o LongCount \o b \o noun
                /\ stated_count = TooLongCount
          \/ \E o \in DescOthers :
                /\ description = lead \o o
                /\ stated_count = IntNone
    /\ num_slides = IntNone /\ prompt = NoPrompt /\ slides = <<>>
    /\ gen_pc = "entry"

\* line 67, extract_slide_count returns
GenExtract ==
    /\ gen_pc = "entry"
    /\ ~Raised(extract_slide_count(description, IntNone))
    /\ num_slides' = extract_slide_count(description, IntNone)
    /\ gen_pc' = "prompt"
    /\ UNCHANGED <<description, stated_count, prompt, slides>>
    /\ UNCHANGED notGen

\* line 67, int() raises in extract_slide_count (line 39): the ValueError
\* leaves generate_outline, which builds no prompt and makes no call
GenExtractRaises ==
    /\ gen_pc = "entry"
    /\ Raised(extract_slide_count(description, IntNone))
    /\ gen_pc' = "raised"
    /\ UNCHANGED <<description, stated_count, num_slides, prompt, slides>>
    /\ UNCHANGED notGen

\* lines 68-84
GenPrompt ==
    /\ gen_pc = "prompt"
    /\ prompt' = OutlinePrompt(description, num_slides)
    /\ gen_pc' = "call"
    /\ UNCHANGED <<description, stated_count, num_slides, slides>>
    /\ UNCHANGED notGen

\* lines 85-86
GenCall ==
    /\ gen_pc = "call"
    /\ \E outline_text \in call_gemini_results :
          slides' = parse_points(outline_text)
    /\ gen_pc' = "done"
    /\ UNCHANGED <<description, stated_count, num_slides, prompt>>
    /\ UNCHANGED notGen

----------------------------------------------------------------------------
(* summarize_long_text *)

\* split_text(full_text, chunk_size=8000, overlap=400)
SummaryChunkSize == 8000
SummaryOverlap == 400

\* mutant: only the empty string is taken as empty
IsBlankOnlyEmpty(t) == t = <<>>

\* "not full_text or not full_text.strip()"
IsBlank(t) == t = <<>> \/ Strip(t) = <<>>

\* the three prompts of summarize_long_text, by what varies in them
WholePrompt(t) == [kind |-> "whole", idx |-> 0, body |-> t]
ChunkPrompt(i, ch) == [kind |-> "chunk", idx |-> i, body |-> ch]
CombinePrompt(combined) == [kind |-> "combine", idx |-> 0, body |-> combined]

\* f"CHUNK {idx} ANALYSIS:\n{analysis.strip()}"
PartialAnalysis(i, analysis) ==
    <<"C", "H", "U", "N", "K", " ">> \o Dec(i) \o <<" ", "A", "N", "A", "L", "Y", "S", "I", "S", ":", "\n">> \o Strip(analysis)

\* "\n\n".join(partial_analyses)
CombinedAnalyses(partials) == Join(partials, <<"\n", "\n">>)

\* mutant: the loop over the chunks stops one chunk early
MapFinishedEarly(i, cs) == i >= Len(cs)

\* "for idx, ch in enumerate(chunks, start=1)" is exhausted
MapFinished(i, cs) == i > Len(cs)

\* what call_gemini returns to the summarizer: an answer (stripped by
\* call_gemini) or the error text, here of an exception text that ends
\* with a line feed
SummaryReplies == {<<>>, <<"o", "k">>, GeminiError \o <<"\n">>}

\* a text of n characters, words of three letters between single blanks
WordsText(n) == [i \in 1..n |-> IF i % 4 = 0 THEN " " ELSE "a"]
BlankText(n) ==
    [i \in 1..n |-> IF i % 4 = 0 THEN "\n" ELSE IF i % 4 = 2 THEN "U+000C" ELSE " "]

\* the longest text that splits into k chunks (k >= 1)
LongestOfChunks(k) ==
    SummaryChunkSize + (k - 1) * (SummaryChunkSize - SummaryOverlap)

\* documents: blank ones, short ones, and around every length at which
\* the number of chunks changes, up to MaxChunks chunks
SummaryTexts ==
    {BlankText(n) : n \in {0, 1, 2, 3, SummaryChunkSize + 1}}
    \cup {WordsText(n) : n \in 1..3}
    \cup {WordsText(LongestOfChunks(k) + d) : k \in 1..MaxChunks, d \in {0 - 1, 0}}
    \cup {WordsText(LongestOfChunks(k) + 1) : k \in 1..(MaxChunks - 1)}

SumIdle ==
    /\ full_text = <<>> /\ sum_chunks = <<>> /\ idx = 0
    /\ partial_analyses = <<>> /\ calls = <<>> /\ replies = <<>>
    /\ summary = None /\ sum_pc = "idle"

\* a call summarize_long_text(full_text); calls and replies log the
\* prompts given to call_gemini and what it returned
SumInit ==
    /\ full_text \in SummaryTexts
    /\ sum_chunks = <<>> /\ idx = 0
    /\ partial_analyses = <<>> /\ calls = <<>> /\ replies = <<>>
    /\ summary = None /\ sum_pc = "entry"

\* lines 132-138 and 158: the blank return, the chunks, the choice of path
SumEnter ==
    /\ sum_pc = "entry"
    /\ IF IsBlank(full_text)
       THEN /\ summary' = <<>>
            /\ sum_pc' = "done"
            /\ UNCHANGED <<sum_chunks, idx>>
       ELSE /\ sum_chunks' = split_text(full_text, SummaryChunkSize, SummaryOverlap)
            /\ sum_pc' = IF Len(sum_chunks') <= 1 THEN "single" ELSE "map"
            /\ idx' = 1
            /\ UNCHANGED summary
    /\ UNCHANGED <<full_text, partial_analyses, calls, replies>>
    /\ UNCHANGED notSum

\* lines 139-155: one call on the whole document
SumSingle ==
    /\ sum_pc = "single"
    /\ \E r \in SummaryReplies :
          /\ calls' = Append(calls, WholePrompt(full_text))
          /\ replies' = Append(replies, r)
          /\ summary' = Strip(r)
    /\ sum_pc' = "done"
    /\ UNCHANGED <<full_text, sum_chunks, idx, partial_analyses>>
    /\ UNCHANGED notSum

\* lines 159-176: one iteration of the loop over the chunks
SumMapStep ==
    /\ sum_pc = "map"
    /\ ~MapFinished(idx, sum_chunks)
    /\ \E analysis \in SummaryReplies :
          /\ calls' = Append(calls, ChunkPrompt(idx, sum_chunks[idx]))
          /\ replies' = Append(replies, analysis)
          /\ partial_analyses' = Append(partial_analyses, PartialAnalysis(idx, analysis))
    /\ idx' = idx + 1
    /\ UNCHANGED <<full_text, sum_chunks, summary, sum_pc>>
    /\ UNCHANGED notSum

\* lines 178-202: the combination call and the return
SumCombine ==
    /\ sum_pc = "map"
    /\ MapFinished(idx, sum_chunks)
    /\ \E final_summary \in SummaryReplies :
          /\ calls' = Append(calls, CombinePrompt(CombinedAnalyses(partial_analyses)))
          /\ replies' = Append(replies, final_summary)
          /\ summary' = Strip(final_summary)
    /\ sum_pc' = "done"
    /\ UNCHANGED <<full_text, sum_chunks, idx, partial_analyses>>
    /\ UNCHANGED notSum

----------------------------------------------------------------------------
(* edit_outline_with_feedback and the Apply Feedback handler *)

\* f"Slide {i+1}: {s['title']}\n{s['description']}" for each slide, joined
\* by line feeds
SerializeSlides(ss) ==
    Join([i \in 1..Len(ss) |->
            <<"S", "l", "i", "d", "e", " ">> \o Dec(i) \o <<":", " ">> \o ss[i].title
            \o <<"\n">> \o ss[i].description],
         <<"\n">>)

\* the prompt of edit_outline_with_feedback, by what varies in it
FeedbackPrompt(o, feedback) ==
    [title |-> o.title, outline_text |-> SerializeSlides(o.slides),
     feedback |-> feedback]

NoFeedbackPrompt == [title |-> <<>>, outline_text |-> <<>>, feedback |-> <<>>]

\* mutant: the title is taken from the first slide of the reply
EditOutlineTitleFromReply(o, feedback, reply) ==
    LET updated_points == parse_points(reply)
    IN  [title |-> IF updated_points # <<>> THEN updated_points[1].title
                   ELSE o.title,
         slides |-> updated_points]

\* edit_outline_with_feedback(outline, feedback), call_gemini returning reply
edit_outline_with_feedback(o, feedback, reply) ==
    [title |-> o.title, slides |-> parse_points(reply)]

\* "new_title.strip() if new_title else updated_outline['title']"
OverrideTitle(nt, updated) ==
    [updated EXCEPT !.title = IF nt # <<>> THEN Strip(nt) ELSE @]

\* titles generate_title returns: call_gemini(prompt).strip()
GeneratedTitles == {<<>>, <<"M", "y", " ", "D", "e", "c", "k">>, Strip(GeminiError)}

\* what the user may type into the feedback area
Feedbacks == {<<>>, <<"s", "h", "o", "r", "t", "e", "r">>}

\* what the title box may hold when Apply Feedback is clicked: the
\* outline's title (its default), nothing, or a new title
TitleBoxes(o) == {o.title, <<>>, <<" ", "N", "e", "w", " ", " ", "t", "i", "t", "l", "e", " ">>}

NoOutline == [title |-> <<>>, slides |-> <<>>]

SessIdle ==
    /\ outline_chat = NoOutline /\ outline = NoOutline
    /\ new_title = <<>> /\ feedback_box = <<>>
    /\ updated_outline = NoOutline /\ fb_prompt = NoFeedbackPrompt
    /\ fb_reply = <<>> /\ fb_message = "none" /\ fb_pc = "off"

\* a session holding an outline made by generate_outline and generate_title
\* (lines 340-341, 350-352)
SessInit ==
    /\ \E t \in GeneratedTitles, r \in call_gemini_results :
          outline_chat = [title |-> t, slides |-> parse_points(r)]
    /\ outline = NoOutline
    /\ new_title = <<>> /\ feedback_box = <<>>
    /\ updated_outline = NoOutline /\ fb_prompt = NoFeedbackPrompt
    /\ fb_reply = <<>> /\ fb_message = "none" /\ fb_pc = "idle"

\* st.rerun(): the script starts over, its local variables are gone
ScriptLocalsReset ==
    /\ outline' = NoOutline
    /\ new_title' = <<>> /\ feedback_box' = <<>>
    /\ updated_outline' = NoOutline /\ fb_prompt' = NoFeedbackPrompt
    /\ fb_reply' = <<>>

\* lines 337-357: a chat message asking for a deck replaces the outline
\* and the script reruns
ChatGenerate ==
    /\ fb_pc = "idle"
    /\ \E t \in GeneratedTitles, r \in call_gemini_results :
          outline_chat' = [title |-> t, slides |-> parse_points(r)]
    /\ fb_message' = "none"
    /\ ScriptLocalsReset
    /\ UNCHANGED fb_pc
    /\ UNCHANGED notSess

\* lines 360-375: Apply Feedback is clicked, which starts a new run of the
\* script: the local variables of the run before are gone, the outline is
\* shown, the boxes are read and the try block is entered
FbClick ==
    /\ fb_pc = "idle"
    /\ outline' = outline_chat
    /\ new_title' \in TitleBoxes(outline_chat)
    /\ feedback_box' \in Feedbacks
    /\ updated_outline' = NoOutline /\ fb_prompt' = NoFeedbackPrompt
    /\ fb_reply' = <<>>
    /\ fb_message' = "none"
    /\ fb_pc' = "call"
    /\ UNCHANGED outline_chat
    /\ UNCHANGED notSess

\* line 376, the call returns.  It returns whatever happens to the HTTP
\* round trip: call_gemini catches every exception of it and returns the
\* error text (lines 22-23), which is parsed as a reply.
FbCallReturns ==
    /\ fb_pc = "call"
    /\ fb_prompt' = FeedbackPrompt(outline, feedback_box)
    /\ \E reply \in call_gemini_results :
          /\ fb_reply' = reply
          /\ updated_outline' = edit_outline_with_feedback(outline, feedback_box, reply)
    /\ fb_pc' = "override"
    /\ UNCHANGED <<outline_chat, outline, new_title, feedback_box, fb_message>>
    /\ UNCHANGED notSess

\* mutant: the handler has written the slides it has so far (none) into the
\* session outline when the revision raises
FbRaisesPartial ==
    /\ fb_pc \in {"call", "override"}
    /\ outline_chat' = [outline_chat EXCEPT !.slides = <<>>]
    /\ fb_message' = "error"
    /\ fb_pc' = "idle"
    /\ UNCHANGED <<outline, new_title, feedback_box, updated_outline,
                   fb_prompt, fb_reply>>
    /\ UNCHANGED notSess

\* line 376 or line 377 raises an Exception: one raised outside the try
\* block of call_gemini, while the prompt is built (lines 89-109), the
\* reply parsed (line 110) or the title overridden (line 377), such as a
\* MemoryError.  Lines 381-382 catch it and report it; the script goes on
\* to its end without a rerun, its local variables as they are until the
\* next run starts.
FbRaises ==
    /\ fb_pc \in {"call", "override"}
    /\ fb_message' = "error"
    /\ fb_pc' = "idle"
    /\ UNCHANGED <<outline_chat, outline, new_title, feedback_box,
                   updated_outline, fb_prompt, fb_reply>>
    /\ UNCHANGED notSess

\* line 377
FbOverride ==
    /\ fb_pc = "override"
    /\ updated_outline' = OverrideTitle(new_title, updated_outline)
    /\ fb_pc' = "store"
    /\ UNCHANGED <<outline_chat, outline, new_title, feedback_box, fb_prompt,
                   fb_reply, fb_message>>
    /\ UNCHANGED notSess

\* lines 378-380: the session outline is replaced and the script reruns
FbStore ==
    /\ fb_pc = "store"
    /\ outline_chat' = updated_outline
    /\ fb_message' = "success"
    /\ fb_pc' = "idle"
    /\ ScriptLocalsReset
    /\ UNCHANGED notSess

----------------------------------------------------------------------------
(* Specifications: one per function under study; the variables of the      *)
(* other functions stay idle.                                              *)

NextSplit == SplitEnter \/ SplitIterate \/ SplitExit

InitSplit == SplitInit /\ ParseIdle /\ TitleIdle /\ GenIdle /\ SumIdle /\ SessIdle
SpecSplit == InitSplit /\ [][NextSplit]_vars

NextParse == ParseEnter \/ ParseStep \/ ParseFinish

InitParse == ParseInit /\ SplitIdle /\ TitleIdle /\ GenIdle /\ SumIdle /\ SessIdle
SpecParse == InitParse /\ [][NextParse]_vars

NextTitle == CleanTitle

InitTitle == TitleInit /\ SplitIdle /\ ParseIdle /\ GenIdle /\ SumIdle /\ SessIdle
SpecTitle == InitTitle /\ [][NextTitle]_vars

NextGen == GenExtract \/ GenExtractRaises \/ GenPrompt \/ GenCall

InitGen == GenInit /\ SplitIdle /\ ParseIdle /\ TitleIdle /\ SumIdle /\ SessIdle
SpecGen == InitGen /\ [][NextGen]_vars

NextSum == SumEnter \/ SumSingle \/ SumMapStep \/ SumCombine

InitSum == SumInit /\ SplitIdle /\ ParseIdle /\ TitleIdle /\ GenIdle /\ SessIdle
SpecSum == InitSum /\ [][NextSum]_vars

NextSess ==
    \/ ChatGenerate \/ FbClick \/ FbCallReturns \/ FbRaises
    \/ FbOverride \/ FbStore

InitSess ==
    SessInit /\ SplitIdle /\ ParseIdle /\ TitleIdle /\ GenIdle /\ SumIdle
SpecSess == InitSess /\ [][NextSess]_vars

----------------------------------------------------------------------------
(* Claims about split_text *)

\* C1: split_text makes progress on every iteration: whenever an iteration
\* of the loop is followed by another one (it is not the terminating
\* iteration), the start index has strictly increased, for every input,
\* overlap >= chunk_size included.
C1_StartStrictlyIncreases ==
    [][(split_pc = "loop" /\ split_pc' = "loop") => start' > start]_vars

\* the first chunk whole, every later chunk without its first ov characters
Reconstruct(cs, ov) ==
    Concat([i \in 1..Len(cs) |->
              IF i = 1 THEN cs[i] ELSE Slice(cs[i], ov, Len(cs[i]))])

\* C2: for chunk_size > overlap >= 0, the first chunk followed by every
\* later chunk with its first `overlap` characters removed is the text.
C2_Reconstruction ==
    (split_pc = "done" /\ chunk_size > overlap /\ overlap >= 0)
        => Reconstruct(chunks, overlap) = text

\* C2 witness: a finished split into three or more overlapping chunks
C2_Witness ==
    /\ split_pc = "done" /\ chunk_size > overlap /\ overlap >= 1
    /\ Len(chunks) >= 3
    /\ Reconstruct(chunks, overlap) = text

----------------------------------------------------------------------------
(* Claims about parse_points *)

\* a cleaned line that is not skipped and matches the boundary pattern
IsBoundaryLine(line) ==
    /\ line # <<>>
    /\ ~Contains(line, WouldYouLike)
    /\ SlideMatch(line).matched

BoundaryLines(pt) == SelectSeq(CleanLines(pt), IsBoundaryLine)

\* the trimmed <rest> of every boundary line, in order of appearance
BoundaryTitles(pt) ==
    LET b == BoundaryLines(pt)
    IN  [i \in 1..Len(b) |-> Strip(SlideMatch(b[i]).rest)]

\* the numerals <N> of the boundary lines, in order of appearance
BoundaryNumerals(pt) ==
    LET b == BoundaryLines(pt)
    IN  [i \in 1..Len(b) |-> ParseInt(SlideMatch(b[i]).num)]

\* C3: parse_points returns one record per boundary line, in order of
\* appearance, titled with the trimmed <rest>, whatever the numerals; no
\* boundary line gives the empty sequence.
C3_OneRecordPerBoundaryLine ==
    parse_pc = "done" =>
        [i \in 1..Len(points) |-> points[i].title] = BoundaryTitles(points_text)

\* C3 witness: at least two records from boundary lines whose numerals
\* are out of order, with a non-boundary "Slide" line in the input
C3_Witness ==
    /\ parse_pc = "done"
    /\ Len(points) >= 2
    /\ Len(BoundaryLines(points_text)) < Len(lines)
    /\ \E i, j \in 1..Len(points) :
          /\ i < j
          /\ BoundaryNumerals(points_text)[i] > BoundaryNumerals(points_text)[j]
          /\ points[i].title # points[j].title

\* the text of a sub-level line: the cleaned line without its blanks and
\* its leading bullet glyphs
SubBulletText(raw) == Strip(LStripChars(Strip(CleanLine(raw)), {Bullet, "*"}))

\* the input line C8 is about: not skipped, no boundary, not a dash bullet,
\* starting with a bullet glyph, an asterisk or a space, with text left
IsSubBulletLine(raw) ==
    LET line == CleanLine(raw)
    IN  /\ line # <<>>
        /\ ~Contains(line, WouldYouLike)
        /\ ~SlideMatch(line).matched
        /\ ~StartsWith(Strip(line), <<"-">>)
        /\ \/ StartsWith(raw, <<Bullet>>)
           \/ StartsWith(raw, <<"*">>)
           \/ StartsWith(raw, <<" ">>)
        /\ SubBulletText(raw) # <<>>

\* C8: while a slide is open, an input line that starts with the bullet
\* glyph, with "*" or with indentation, and has text after its glyph, is
\* appended to the description as the sub-level line "- text".
C8_SubBulletAppended ==
    [][(/\ parse_pc = "loop" /\ line_idx <= Len(lines)
        /\ line_idx' = line_idx + 1
        /\ Truthy(current_title)
        /\ IsSubBulletLine(SplitLines(points_text)[line_idx]))
       => current_content' =
            Append(current_content,
                   <<"-", " ">> \o SubBulletText(SplitLines(points_text)[line_idx]))
      ]_vars

----------------------------------------------------------------------------
(* Claims about clean_title_text and generate_outline *)

\* C4: the result of clean_title_text is never the empty string: the empty
\* string and every whitespace-only title give the default placeholder.
C4_TitleNeverEmpty ==
    title_pc = "done" => cleaned # <<>>

\* C5 as stated: a description with the count N gets a prompt for exactly
\* N - 1 content slides, for every N >= 0; one without a count gets the
\* open-ended prompt.
C5_ExactlyNMinusOne ==
    gen_pc \in {"call", "done"} =>
        IF stated_count.none THEN ~prompt.exactly
        ELSE prompt.exactly /\ prompt.count = stated_count.int - 1

\* C5, amended: a description with the count N, written in at most
\* IntMaxStrDigits digits, gets a prompt for exactly max(1, N - 1) content
\* slides (N - 1 for N >= 2, 1 for N = 0 and N = 1); one without a count
\* gets the open-ended prompt; a count written in more digits makes
\* generate_outline raise, with no prompt built and no call made.
C5_ExactlyNMinusOneAtLeastOne ==
    /\ gen_pc \in {"call", "done"} =>
          IF stated_count.none THEN ~prompt.exactly
          ELSE prompt.exactly /\ prompt.count = Max(1, stated_count.int - 1)
    /\ "digits" \in DOMAIN stated_count <=> gen_pc \in {"entry", "raised"}
                                             /\ Len(description) > IntMaxStrDigits
    /\ gen_pc = "raised" => prompt = NoPrompt /\ slides = <<>>

\* C5 witness: the prompt built for "ppt on 7 0 slides" asks for one slide
C5_Witness ==
    /\ gen_pc = "call"
    /\ stated_count = IntOf(0)
    /\ Len(description) > 8
    /\ prompt.exactly /\ prompt.count = 1

----------------------------------------------------------------------------
(* Claims about summarize_long_text *)

\* C6: on an empty or whitespace-only text summarize_long_text issues no
\* LLM call and returns the empty string.
C6_BlankTextNoCall ==
    (\A i \in 1..Len(full_text) : full_text[i] \in Whitespace) =>
        /\ calls = <<>>
        /\ sum_pc = "done" => summary = <<>>

\* C6 witness: the call has returned on a long text of blanks, form feeds
\* and line feeds
C6_Witness ==
    /\ sum_pc = "done"
    /\ Len(full_text) > SummaryChunkSize
    /\ \E i \in 1..4 : full_text[i] = "U+000C"
    /\ \A i \in 1..Len(full_text) : full_text[i] \in Whitespace
    /\ summary = <<>> /\ calls = <<>>

\* C9: on the multi-chunk path (k > 1 chunks) the calls are the k per-chunk
\* calls in chunk order and then, after all of them have returned, exactly
\* one combination call whose prompt holds the k labelled analyses in chunk
\* order, an error text standing for the analysis of a call that failed.
C9_MapThenOneCombine ==
    LET k == Len(sum_chunks) IN
    (sum_pc \in {"map", "done"} /\ k > 1) =>
        /\ Len(calls) = Len(replies)
        /\ \A j \in 1..Len(calls) :
              IF j <= k
              THEN calls[j] = [kind |-> "chunk", idx |-> j, body |-> sum_chunks[j]]
              ELSE /\ j = k + 1
                   /\ calls[j].kind = "combine"
                   /\ calls[j].body =
                        Join([i \in 1..k |->
                                <<"C", "H", "U", "N", "K", " ">> \o Dec(i)
                                \o <<" ", "A", "N", "A", "L", "Y", "S", "I", "S", ":", "\n">>
                                \o Strip(replies[i])],
                             <<"\n", "\n">>)
        /\ sum_pc = "done" => Len(calls) = k + 1

\* C9 witness: three chunks, the second per-chunk call failed, and the
\* combination call has been made
C9_Witness ==
    /\ sum_pc = "done"
    /\ Len(sum_chunks) = 3
    /\ Len(calls) = 4
    /\ calls[4].kind = "combine"
    /\ replies[2] = GeminiError \o <<"\n">>
    /\ replies[1] # replies[3]

----------------------------------------------------------------------------
(* Claims about the outline reviser *)

\* C7: whatever the LLM returns, the outline edit_outline_with_feedback
\* returns has the title of the outline it was given, and the slides
\* parsed from the reply; with the title box left at the outline's title,
\* the outline the handler stores has that title too.
C7_RevisionKeepsTitle ==
    /\ fb_pc = "override" =>
          /\ updated_outline.title = outline.title
          /\ updated_outline.slides = parse_points(fb_reply)
    /\ (fb_pc = "store" /\ new_title = outline.title) =>
          updated_outline.title = outline.title

\* C7 witness: the call has returned other slides than the outline had,
\* the first of them titled otherwise than the outline
C7_Witness ==
    /\ fb_pc = "override"
    /\ outline.title # <<>>
    /\ updated_outline.title = outline.title
    /\ updated_outline.slides # outline.slides
    /\ updated_outline.slides # <<>>
    /\ updated_outline.slides[1].title # outline.title

\* a step of a revision under way: the step that catches and reports an
\* exception leaves the session outline as it was before the attempt, and
\* only the storing step changes the session outline
RevisionStepKeepsOrReplaces ==
    fb_pc \in {"call", "override", "store"} =>
        /\ fb_message' = "error" =>
              (outline_chat' = outline_chat /\ outline_chat' = outline)
        /\ outline_chat' # outline_chat =>
              /\ fb_pc = "store"
              /\ fb_message' = "success"
              /\ outline_chat' =
                   OverrideTitle(new_title,
                                 [title |-> outline.title,
                                  slides |-> parse_points(fb_reply)])

\* C10: when the revision raises, the exception is caught in the handler
\* and reported, and the session outline is the outline that was current
\* before the attempt; the session outline changes only in the step that
\* stores the completed revision (the parsed slides of the reply, under
\* the title the handler gives it), never in part.
C10_FailedRevisionKeepsOutline ==
    [][RevisionStepKeepsOrReplaces]_vars

\* C10 witness: a revision of an outline with slides raised after other
\* slides had been parsed from the reply; the error has been reported and
\* the session outline is the one the attempt started from
C10_Witness ==
    /\ fb_pc = "idle"
    /\ fb_message = "error"
    /\ outline_chat = outline
    /\ outline_chat.slides # <<>>
    /\ updated_outline.slides # <<>>
    /\ updated_outline.slides # outline_chat.slides
    /\ new_title # outline.title /\ new_title # <<>>

----------------------------------------------------------------------------
(* Claim about the serialisation of an outline *)

\* C11: serialising the slides parse_points returned, as
\* edit_outline_with_feedback does, and parsing the serialisation again
\* gives the same slides: same number, order, titles and description
\* lines with the same prefixes, so a revision whose reply echoes the
\* outline returns the slides it was given.
C11_SerializeParseIdentity ==
    parse_pc = "done" =>
        /\ parse_points(SerializeSlides(points)) = points
        /\ edit_outline_with_feedback([title |-> <<>>, slides |-> points],
                                      <<>>, SerializeSlides(points)).slides
             = points

====
